---- MODULE Spec2Model ----
(***************************************************************************)
(* Model of the TEI -> (text, annotations, pages) extraction of            *)
(* src/convert.py: extract_document_data, process_element,                 *)
(* add_text_to_context, get_element_text, remove_extra_spaces and the      *)
(* per-file loop of process_corpus.                                        *)
(*                                                                         *)
(* A Python str is a sequence of one-character strings.  An element of     *)
(* the parsed tree is a record [tag, attrib, text, children, tail]; an     *)
(* absent element.text or child.tail is the empty string (both are falsy   *)
(* in every test the code makes).                                          *)
(***************************************************************************)
EXTENDS Integers, Sequences, FiniteSets, TLC

\* ------------------------------------------------------------------ bounds

\* Largest number of elements of a <body> before the last one.
MaxBefore == 2

\* Largest number of files handed to process_corpus in one run.
MaxFiles == 3

\* ------------------------------------------------------------- characters

SP == " "
NL == "\n"

\* str.isspace() / the regular expression class \s, on the model's alphabet.
IsSpace(c) == c \in {SP, NL, "\t"}

\* Python's None where a str is expected (never a sequence of characters).
NoneStr == <<"None">>

\* Python's None where a page label is expected.
None == "None"

\* Python truthiness of an optional str: None and "" are falsy.
Truthy(s) == s # NoneStr /\ s # <<>>

\* ------------------------------------------------------- string functions

\* re.sub(r"\s+", " ", text): every maximal whitespace run becomes one space.
RECURSIVE CollapseAll(_)
CollapseAll(s) ==
  IF s = <<>> THEN <<>>
  ELSE IF IsSpace(Head(s))
       THEN IF Len(s) > 1 /\ IsSpace(s[2])
            THEN CollapseAll(Tail(s))
            ELSE <<SP>> \o CollapseAll(Tail(s))
       ELSE <<Head(s)>> \o CollapseAll(Tail(s))

\* str.lstrip() and str.rstrip() and str.strip().
RECURSIVE LStrip(_)
LStrip(s) == IF s # <<>> /\ IsSpace(Head(s)) THEN LStrip(Tail(s)) ELSE s

RECURSIVE RStrip(_)
RStrip(s) ==
  IF s # <<>> /\ IsSpace(s[Len(s)]) THEN RStrip(SubSeq(s, 1, Len(s) - 1)) ELSE s

Strip(s) == RStrip(LStrip(s))

\* Length of the whitespace run that starts s.
RECURSIVE RunLen(_)
RunLen(s) == IF s # <<>> /\ IsSpace(Head(s)) THEN 1 + RunLen(Tail(s)) ELSE 0

\* re.sub(r"\s{2,}", " ", text): a run of two or more whitespace characters
\* becomes one space; a single whitespace character is left as it is.
RECURSIVE CollapseRuns(_)
CollapseRuns(s) ==
  IF s = <<>> THEN <<>>
  ELSE LET n == RunLen(s) IN
       IF n >= 2 THEN <<SP>> \o CollapseRuns(SubSeq(s, n + 1, Len(s)))
       ELSE <<Head(s)>> \o CollapseRuns(Tail(s))

\* remove_extra_spaces(text)
remove_extra_spaces(text) == CollapseRuns(Strip(text))

\* text.replace("\n", "")
RECURSIVE StripNewlines(_)
StripNewlines(s) ==
  IF s = <<>> THEN <<>>
  ELSE IF Head(s) = NL THEN StripNewlines(Tail(s))
       ELSE <<Head(s)>> \o StripNewlines(Tail(s))

\* Python's slice text[a:b] for 0 <= a: clipped to the length of text.
Slice(s, a, b) ==
  LET hi == IF b < Len(s) THEN b ELSE Len(s)
  IN  IF a >= hi THEN <<>> ELSE SubSeq(s, a + 1, hi)

\* ---------------------------------------------------------------- elements

Elem(tag, attrib, text, children, tail) ==
  [tag |-> tag, attrib |-> attrib, text |-> text, children |-> children,
   tail |-> tail]

\* An attribute map is a set of <<name, value>> pairs with distinct names.
NoAttrib == {}

\* element.get(name): the value, or "" standing for None (both falsy).
Get(attrib, name) ==
  IF \E p \in attrib : p[1] = name
  THEN (CHOOSE p \in attrib : p[1] = name)[2]
  ELSE ""

\* get_element_text(element): direct text, the text of every child that is
\* not a <del>, and every child's tail, joined and passed through
\* remove_extra_spaces.
RECURSIVE get_element_text(_)
RECURSIVE JoinChildren(_)
JoinChildren(kids) ==
  IF kids = <<>> THEN <<>>
  ELSE LET child == Head(kids) IN
       (IF child.tag # "del" THEN get_element_text(child) ELSE <<>>)
       \o child.tail \o JoinChildren(Tail(kids))

get_element_text(element) ==
  remove_extra_spaces(element.text \o JoinChildren(element.children))

\* element.find(".//tei:<tag>"): the first descendant with that tag in
\* document order, as <<elem>>, or <<>> for None.
RECURSIVE FindIn(_, _)
FindIn(kids, tag) ==
  IF kids = <<>> THEN <<>>
  ELSE LET child == Head(kids) IN
       IF child.tag = tag THEN <<child>>
       ELSE LET below == FindIn(child.children, tag) IN
            IF below # <<>> THEN below ELSE FindIn(Tail(kids), tag)

Find(element, tag) == FindIn(element.children, tag)

\* get_element_text(x) if x is not None else None
TextOrNone(found) == IF found = <<>> THEN NoneStr ELSE get_element_text(found[1])

\* ------------------------------------------------------- input documents

Lb(tail) == Elem("lb", NoAttrib, <<>>, <<>>, tail)

Pb(n, tail) ==
  Elem("pb", IF n = "" THEN NoAttrib ELSE {<<"n", n>>}, <<>>, <<>>, tail)

NoteEl(text, tail) == Elem("note", NoAttrib, text, <<>>, tail)

Abbr(text) == Elem("abbr", NoAttrib, text, <<>>, <<>>)

Expan(text) == Elem("expan", NoAttrib, text, <<>>, <<>>)

Del(text, kids, tail) == Elem("del", NoAttrib, text, kids, tail)

Add(text, kids) == Elem("add", NoAttrib, text, kids, <<>>)

Hi(text, tail) == Elem("hi", NoAttrib, text, <<>>, tail)

Div(text, tail) == Elem("div", {<<"type", "t">>}, text, <<>>, tail)

PersName(text, kids, tail) == Elem("persName", {<<"ref", "r">>}, text, kids, tail)

\* <lb break="no"/>
LbBreak(tail) == Elem("lb", {<<"break", "no">>}, <<>>, <<>>, tail)

\* A name that holds a page break: inside a <choice>, <subst> or <note> it is
\* a descendant the generic branch would annotate and take a page from.
NamedPage == PersName(<<"a">>, <<Pb("3", <<>>)>>, <<>>)

\* The children of a <choice>: either side present, empty or missing, equal
\* sides, an expansion holding a line end, and one holding a name and a page
\* break.
ChoiceKids ==
  { <<>>,
    <<Abbr(<<"b">>)>>,
    <<Expan(<<"a">>)>>,
    <<Abbr(<<"b">>), Expan(<<"a">>)>>,
    <<Abbr(<<"b">>), Expan(<<>>)>>,
    <<Abbr(<<"a">>), Expan(<<"a">>)>>,
    <<Abbr(<<"b">>), Expan(<<"a", NL, "b">>)>>,
    <<Abbr(<<"b">>), Elem("expan", NoAttrib, <<>>, <<NamedPage>>, <<>>)>> }

\* The children of a <subst>: either side present or missing, an addition
\* that holds a deletion, a deletion that holds an addition, an addition
\* holding a line end, and one holding a name and a page break.  "d" is
\* written only inside <del>.
SubstKids ==
  { <<>>,
    <<Del(<<"d">>, <<>>, <<>>)>>,
    <<Add(<<"a">>, <<>>)>>,
    <<Del(<<"d">>, <<>>, <<>>), Add(<<"a">>, <<>>)>>,
    <<Del(<<"d">>, <<>>, <<>>), Add(<<"a">>, <<Del(<<"d">>, <<>>, <<"b">>)>>)>>,
    <<Del(<<"d">>, <<Add(<<"d">>, <<>>)>>, <<>>), Add(<<"a">>, <<>>)>>,
    <<Del(<<"d">>, <<>>, <<>>), Add(<<"a", NL, "b">>, <<>>)>>,
    <<Del(<<"d">>, <<>>, <<>>), Add(<<>>, <<NamedPage>>)>> }

\* The text after an element.
Tails == {<<>>, <<"a">>, <<SP>>}

\* What an annotated element may hold after its own text.
InnerTails == {<<>>, <<"b">>}

InnerKids ==
  {<<>>}
  \cup {<<Lb(t)>> : t \in InnerTails}
  \cup {<<Pb("1", t)>> : t \in InnerTails}
  \cup {<<NoteEl(<<"c">>, t)>> : t \in InnerTails}
  \cup {<<Del(<<"d">>, <<>>, t)>> : t \in InnerTails}

InnerTexts == {<<"a">>, <<SP, NL, "a">>}

\* The elements a <body> may end with.
Last ==
  UNION { { Lb(t), LbBreak(t), Pb("", t), Pb("2", t),
            NoteEl(<<"c">>, t), NoteEl(<<>>, t), NoteEl(<<"a">>, t),
            Elem("note", NoAttrib, <<"c">>, <<NamedPage>>, t),
            Hi(<<"a">>, t), Div(<<"a">>, t) }
          \cup {Elem("choice", NoAttrib, <<>>, k, t) : k \in ChoiceKids}
          \cup {Elem("subst", NoAttrib, <<>>, k, t) : k \in SubstKids}
          \cup {PersName(x, k, t) : x \in InnerTexts, k \in InnerKids}
        : t \in Tails }

\* The elements before it: they set the page, the whitespace flag and the
\* position the last element starts from.
Before ==
  { Lb(<<>>), Lb(<<"a">>), Pb("1", <<>>), Pb("1", <<"a">>),
    NoteEl(<<"c">>, <<>>), Hi(<<"a">>, <<SP>>),
    PersName(<<"a">>, <<>>, <<SP>>) }

RECURSIVE SeqsUpTo(_, _)
SeqsUpTo(S, n) ==
  IF n = 0 THEN {<<>>}
  ELSE LET shorter == SeqsUpTo(S, n - 1)
       IN  shorter \cup {Append(q, x) : q \in shorter, x \in S}

BodyTexts == {<<>>, <<"a">>, <<"a", SP>>}

Bodies ==
  { Elem("body", NoAttrib, x, kids, <<>>) :
      x \in BodyTexts,
      kids \in UNION { {b, b \o <<l>>} : b \in SeqsUpTo(Before, MaxBefore),
                                          l \in Last } }

\* A parsed file: the root, holding the <body> below <text>, or no <body>.
Root(kids) == Elem("TEI", NoAttrib, <<>>, kids, <<>>)

\* A file that is not well-formed XML: ET.parse raises on it.
Unparsable == Elem("", NoAttrib, <<>>, <<>>, <<>>)

Docs ==
  {Root(<<>>), Unparsable}
  \cup {Root(<<Elem("text", NoAttrib, <<>>, <<b>>, <<>>)>>) : b \in Bodies}

\* The files of a run that processes several.
CorpusDocs ==
  {Unparsable} \cup
  { Root(<<Elem("text", NoAttrib, <<>>,
             <<Elem("body", NoAttrib, x, kids, <<>>)>>, <<>>)>>) :
      x \in {<<>>, <<SP, "a">>},
      kids \in { <<>>,
                 <<Pb("1", <<"a">>), PersName(<<"a">>, <<>>, <<>>)>>,
                 <<PersName(<<SP, NL, "a">>, <<Lb(<<>>)>>, <<>>)>>,
                 <<NoteEl(<<"c">>, <<>>)>>,
                 <<Elem("choice", NoAttrib, <<>>,
                        <<Abbr(<<"b">>), Expan(<<"a">>)>>, <<SP>>),
                   Elem("subst", NoAttrib, <<>>,
                        <<Del(<<"d">>, <<>>, <<>>), Add(<<"a">>, <<>>)>>,
                        <<>>)>> } }

\* ------------------------------------------------------------ accumulator

\* The loop body counting a suppressed whitespace character as appended.
AddCharCounting(char, ctx) ==
  IF IsSpace(char)
  THEN IF ~ctx.last_char_is_whitespace
       THEN [ctx EXCEPT !.text_content = Append(@, char),
                        !.global_offset = @ + 1,
                        !.last_char_is_whitespace = TRUE]
       ELSE [ctx EXCEPT !.global_offset = @ + 1]
  ELSE [ctx EXCEPT !.text_content = Append(@, char),
                   !.global_offset = @ + 1,
                   !.last_char_is_whitespace = FALSE]

\* The loop body of add_text_to_context for one character.
AddChar(char, ctx) ==
  IF IsSpace(char)
  THEN IF ~ctx.last_char_is_whitespace
       THEN [ctx EXCEPT !.text_content = Append(@, char),
                        !.global_offset = @ + 1,
                        !.last_char_is_whitespace = TRUE]
       ELSE ctx
  ELSE [ctx EXCEPT !.text_content = Append(@, char),
                   !.global_offset = @ + 1,
                   !.last_char_is_whitespace = FALSE]

RECURSIVE AddChars(_, _)
AddChars(text, ctx) ==
  IF text = <<>> THEN ctx ELSE AddChars(Tail(text), AddChar(Head(text), ctx))

\* add_text_to_context(text, context)
add_text_to_context(text, ctx) ==
  IF ~Truthy(text) THEN ctx ELSE AddChars(CollapseAll(text), ctx)

\* ------------------------------------------------------------------ state

VARIABLES
  files,        \* process_corpus: the file paths not yet processed
  subdir_data,  \* process_corpus: the documents extracted so far
  pc,           \* "idle" | "walk" | "return": position in extract_document_data;
                \* "lcp_doc" | "lcp_ann": position in convert_to_lcp
  context,      \* the context dict of extract_document_data
  stack,        \* the active calls of process_element (generic branch)
  file_paths,   \* process_corpus: the list the loop iterates over
  printed,      \* process_corpus: the file paths of the lines printed
  lcp,          \* convert_to_lcp: its counters, its locals and the rows written
  builder       \* convert_builder.py, process_corpus: the files not yet
                \* processed, corpus_data and current_pos

vars ==
  <<files, subdir_data, pc, context, stack, file_paths, printed, lcp, builder>>

\* Before the first call of extract_document_data there is no context yet.
NoContext ==
  [text_content |-> <<>>, annotations |-> <<>>, pages |-> <<>>,
   current_page |-> None, global_offset |-> 0,
   last_char_is_whitespace |-> TRUE]

\* A context that goes on counting from the position of the last document.
NewContextCarried ==
  [text_content |-> <<>>, annotations |-> <<>>, pages |-> <<>>,
   current_page |-> None, global_offset |-> context.global_offset,
   last_char_is_whitespace |-> TRUE]

\* The context dict built by extract_document_data.
NewContext ==
  [text_content |-> <<>>, annotations |-> <<>>, pages |-> <<>>,
   current_page |-> None, global_offset |-> 0,
   last_char_is_whitespace |-> TRUE]

\* One active call of process_element in its generic branch: the element, the
\* index of the child the loop is at, the start_offset taken on entry, and
\* whether the loop is about to process the child or to add its tail.
Frame(element, start_offset) ==
  [element |-> element, idx |-> 1, start_offset |-> start_offset,
   phase |-> "child"]

Top == stack[Len(stack)]

\* The child the innermost loop is at.
Child == Top.element.children[Top.idx]

AtChild ==
  /\ pc = "walk"
  /\ stack # <<>>
  /\ Top.phase = "child"
  /\ Top.idx <= Len(Top.element.children)

\* process_element(child, context) has returned: the loop goes on to the tail.
ChildDone == [stack EXCEPT ![Len(stack)].phase = "tail"]

\* The list without "div".
StructuralTagsNoDiv ==
  {"p", "body", "text", "group", "lb", "pb", "choice", "subst", "del",
   "add", "abbr", "expan"}

\* The tags process_element never annotates.
StructuralTags ==
  {"div", "p", "body", "text", "group", "lb", "pb", "choice", "subst", "del",
   "add", "abbr", "expan"}

\* The branches without the one for notes: a note is walked like any element.
SpecialTagsNoNote == {"pb", "lb", "choice", "subst"}

SpecialTags == {"pb", "lb", "choice", "note", "subst"}

\* The annotation check that ends process_element: the annotation list after
\* it, for an element entered at start_offset.
AnnotationCheck(element, start_offset, ctx) ==
  IF element.tag \notin StructuralTags /\ element.attrib # {}
  THEN Append(ctx.annotations,
         [type |-> element.tag,
          attributes |-> element.attrib,
          text |-> get_element_text(element),
          alternative_text |-> NoneStr,
          start_offset |-> start_offset,
          end_offset |-> ctx.global_offset,
          page |-> ctx.current_page])
  ELSE ctx.annotations

\* convert_builder.py before its process_corpus is called.
NoBuilder == [xml_files |-> <<>>, corpus_data |-> <<>>, current_pos |-> 0]

\* ---------------------------------------------------------------- actions

\* extract_document_data up to and including the entry of process_element(body):
\* a fresh context, then the generic branch adds body.text.
StartDocument ==
  /\ pc = "idle"
  /\ files # <<>>
  /\ Head(files) # Unparsable
  /\ LET body == Find(Head(files), "body") IN
     IF body # <<>>
     THEN /\ context' = add_text_to_context(body[1].text, NewContext)
          /\ stack' = <<Frame(body[1], NewContext.global_offset)>>
          /\ pc' = "walk"
     ELSE /\ context' = NewContext
          /\ stack' = <<>>
          /\ pc' = "return"
  /\ UNCHANGED <<files, subdir_data, file_paths, printed, lcp, builder>>

\* The pb branch recording a one-based position.
PageBranchOneBased(element, ctx) ==
  LET page_num == Get(element.attrib, "n") IN
  IF page_num # ""
  THEN [ctx EXCEPT !.current_page = page_num,
                   !.pages = Append(@, [page_num |-> page_num,
                                        offset |-> ctx.global_offset + 1])]
  ELSE ctx

\* The pb branch taking the label without testing it.
PageBranchUnguarded(element, ctx) ==
  LET page_num == Get(element.attrib, "n") IN
  [ctx EXCEPT !.current_page = page_num,
              !.pages = Append(@, [page_num |-> page_num,
                                   offset |-> ctx.global_offset])]

\* The pb branch: the context after it.
PageBranch(element, ctx) ==
  LET page_num == Get(element.attrib, "n") IN
  IF page_num # ""
  THEN [ctx EXCEPT !.current_page = page_num,
                   !.pages = Append(@, [page_num |-> page_num,
                                        offset |-> ctx.global_offset])]
  ELSE ctx

\* process_element on a <pb>.
PageBreak ==
  /\ AtChild
  /\ Child.tag = "pb"
  /\ LET ctx == PageBranch(Child, context)
     IN  context' = [ctx EXCEPT !.annotations =
                       AnnotationCheck(Child, context.global_offset, ctx)]
  /\ stack' = ChildDone
  /\ UNCHANGED <<files, subdir_data, pc, file_paths, printed, lcp, builder>>

\* The lb branch writing its newline only after a non-whitespace character.
LineBreakSuppressed ==
  /\ AtChild
  /\ Child.tag = "lb"
  /\ LET ctx == IF context.last_char_is_whitespace
                THEN context
                ELSE [context EXCEPT !.text_content = Append(@, NL),
                                     !.global_offset = @ + 1,
                                     !.last_char_is_whitespace = TRUE]
     IN  context' = [ctx EXCEPT !.annotations =
                       AnnotationCheck(Child, context.global_offset, ctx)]
  /\ stack' = ChildDone
  /\ UNCHANGED <<files, subdir_data, pc, file_paths, printed, lcp, builder>>

\* process_element on a <lb>.
LineBreak ==
  /\ AtChild
  /\ Child.tag = "lb"
  /\ LET ctx == [context EXCEPT !.text_content = Append(@, NL),
                                !.global_offset = @ + 1,
                                !.last_char_is_whitespace = TRUE]
     IN  context' = [ctx EXCEPT !.annotations =
                       AnnotationCheck(Child, context.global_offset, ctx)]
  /\ stack' = ChildDone
  /\ UNCHANGED <<files, subdir_data, pc, file_paths, printed, lcp, builder>>

\* The choice branch with the two offsets of the annotation exchanged.
ChoiceBranchSwapped(element, ctx) ==
  LET abbr_text == TextOrNone(Find(element, "abbr"))
      expan_text == TextOrNone(Find(element, "expan"))
      chosen_text == IF Truthy(expan_text) THEN expan_text ELSE abbr_text
      alternative_text ==
        IF chosen_text = expan_text THEN abbr_text ELSE expan_text
      added == IF Truthy(chosen_text)
               THEN add_text_to_context(chosen_text, ctx) ELSE ctx
  IN  [added EXCEPT !.annotations = Append(@,
         [type |-> "choice",
          text |-> chosen_text,
          alternative_text |-> alternative_text,
          start_offset |-> added.global_offset,
          end_offset |-> ctx.global_offset,
          page |-> added.current_page])]

\* The choice branch preferring the abbreviation.
ChoiceBranchPrefersAbbr(element, ctx) ==
  LET abbr_text == TextOrNone(Find(element, "abbr"))
      expan_text == TextOrNone(Find(element, "expan"))
      chosen_text == IF Truthy(abbr_text) THEN abbr_text ELSE expan_text
      alternative_text ==
        IF chosen_text = abbr_text THEN expan_text ELSE abbr_text
      added == IF Truthy(chosen_text)
               THEN add_text_to_context(chosen_text, ctx) ELSE ctx
  IN  [added EXCEPT !.annotations = Append(@,
         [type |-> "choice",
          text |-> chosen_text,
          alternative_text |-> alternative_text,
          start_offset |-> ctx.global_offset,
          end_offset |-> added.global_offset,
          page |-> added.current_page])]

\* The choice branch: the context after it.
ChoiceBranch(element, ctx) ==
  LET abbr_text == TextOrNone(Find(element, "abbr"))
      expan_text == TextOrNone(Find(element, "expan"))
      chosen_text == IF Truthy(expan_text) THEN expan_text ELSE abbr_text
      alternative_text ==
        IF chosen_text = expan_text THEN abbr_text ELSE expan_text
      added == IF Truthy(chosen_text)
               THEN add_text_to_context(chosen_text, ctx) ELSE ctx
  IN  [added EXCEPT !.annotations = Append(@,
         [type |-> "choice",
          text |-> chosen_text,
          alternative_text |-> alternative_text,
          start_offset |-> ctx.global_offset,
          end_offset |-> added.global_offset,
          page |-> added.current_page])]

\* process_element on a <choice>.
Choice ==
  /\ AtChild
  /\ Child.tag = "choice"
  /\ context' = ChoiceBranch(Child, context)
  /\ stack' = ChildDone
  /\ UNCHANGED <<files, subdir_data, pc, file_paths, printed, lcp, builder>>

\* The note branch with end_offset taken as the length of the note alone.
NoteBranchEndIsLength(element, ctx) ==
  LET spaced == IF ~ctx.last_char_is_whitespace
                THEN [ctx EXCEPT !.text_content = Append(@, SP),
                                 !.global_offset = @ + 1,
                                 !.last_char_is_whitespace = TRUE]
                ELSE ctx
      note_text == get_element_text(element)
      note_start == spaced.global_offset
  IN  [spaced EXCEPT !.annotations = Append(@,
         [type |-> "note",
          text |-> note_text,
          alternative_text |-> NoneStr,
          start_offset |-> note_start,
          end_offset |-> Len(note_text),
          page |-> spaced.current_page])]

\* The note branch that writes its separating space whatever the flag says.
NoteBranchAlwaysSpace(element, ctx) ==
  LET spaced == [ctx EXCEPT !.text_content = Append(@, SP),
                            !.global_offset = @ + 1,
                            !.last_char_is_whitespace = TRUE]
      note_text == get_element_text(element)
      note_start == spaced.global_offset
  IN  [spaced EXCEPT !.annotations = Append(@,
         [type |-> "note",
          text |-> note_text,
          alternative_text |-> NoneStr,
          start_offset |-> note_start,
          end_offset |-> note_start + Len(note_text),
          page |-> spaced.current_page])]

\* The note branch taking note_start before the separating space.
NoteBranchStartsAtEntry(element, ctx) ==
  LET spaced == IF ~ctx.last_char_is_whitespace
                THEN [ctx EXCEPT !.text_content = Append(@, SP),
                                 !.global_offset = @ + 1,
                                 !.last_char_is_whitespace = TRUE]
                ELSE ctx
      note_text == get_element_text(element)
      note_start == ctx.global_offset
  IN  [spaced EXCEPT !.annotations = Append(@,
         [type |-> "note",
          text |-> note_text,
          alternative_text |-> NoneStr,
          start_offset |-> note_start,
          end_offset |-> note_start + Len(note_text),
          page |-> spaced.current_page])]

\* The note branch writing the note's text into the buffer.
NoteBranchAppendsText(element, ctx) ==
  LET spaced == IF ~ctx.last_char_is_whitespace
                THEN [ctx EXCEPT !.text_content = Append(@, SP),
                                 !.global_offset = @ + 1,
                                 !.last_char_is_whitespace = TRUE]
                ELSE ctx
      note_text == get_element_text(element)
      note_start == spaced.global_offset
      added == add_text_to_context(note_text, spaced)
  IN  [added EXCEPT !.annotations = Append(@,
         [type |-> "note",
          text |-> note_text,
          alternative_text |-> NoneStr,
          start_offset |-> note_start,
          end_offset |-> note_start + Len(note_text),
          page |-> spaced.current_page])]

\* The note branch: the context after it.
NoteBranch(element, ctx) ==
  LET spaced == IF ~ctx.last_char_is_whitespace
                THEN [ctx EXCEPT !.text_content = Append(@, SP),
                                 !.global_offset = @ + 1,
                                 !.last_char_is_whitespace = TRUE]
                ELSE ctx
      note_text == get_element_text(element)
      note_start == spaced.global_offset
  IN  [spaced EXCEPT !.annotations = Append(@,
         [type |-> "note",
          text |-> note_text,
          alternative_text |-> NoneStr,
          start_offset |-> note_start,
          end_offset |-> note_start + Len(note_text),
          page |-> spaced.current_page])]

\* process_element on a <note>.
Note ==
  /\ AtChild
  /\ Child.tag = "note"
  /\ context' = NoteBranch(Child, context)
  /\ stack' = ChildDone
  /\ UNCHANGED <<files, subdir_data, pc, file_paths, printed, lcp, builder>>

\* The subst branch: the context after it.
SubstBranch(element, ctx) ==
  LET del_text == TextOrNone(Find(element, "del"))
      add_text == TextOrNone(Find(element, "add"))
      added == IF Truthy(add_text)
               THEN add_text_to_context(add_text, ctx) ELSE ctx
  IN  [added EXCEPT !.annotations = Append(@,
         [type |-> "substitution",
          text |-> add_text,
          alternative_text |-> del_text,
          start_offset |-> ctx.global_offset,
          end_offset |-> added.global_offset,
          page |-> added.current_page,
          details |-> [deleted |-> del_text, added |-> add_text]])]

\* process_element on a <subst>.
Subst ==
  /\ AtChild
  /\ Child.tag = "subst"
  /\ context' = SubstBranch(Child, context)
  /\ stack' = ChildDone
  /\ UNCHANGED <<files, subdir_data, pc, file_paths, printed, lcp, builder>>

\* process_element on any other child: the generic branch starts, taking
\* start_offset and adding element.text.
EnterElement ==
  /\ AtChild
  /\ Child.tag \notin SpecialTags
  /\ context' = add_text_to_context(Child.text, context)
  /\ stack' = Append(stack, Frame(Child, context.global_offset))
  /\ UNCHANGED <<files, subdir_data, pc, file_paths, printed, lcp, builder>>

\* The loop of the generic branch after process_element(child) returned:
\* child.tail is added and the loop moves to the next child.
AddTail ==
  /\ pc = "walk"
  /\ stack # <<>>
  /\ Top.phase = "tail"
  /\ context' = add_text_to_context(Child.tail, context)
  /\ stack' = [stack EXCEPT ![Len(stack)].idx = @ + 1,
                            ![Len(stack)].phase = "child"]
  /\ UNCHANGED <<files, subdir_data, pc, file_paths, printed, lcp, builder>>

\* The generic branch is out of children: the annotation check, and the call
\* returns to the loop of its parent, or to extract_document_data.
ExitElement ==
  /\ pc = "walk"
  /\ stack # <<>>
  /\ Top.phase = "child"
  /\ Top.idx > Len(Top.element.children)
  /\ context' = [context EXCEPT !.annotations =
                   AnnotationCheck(Top.element, Top.start_offset, context)]
  /\ IF Len(stack) = 1
     THEN /\ stack' = <<>>
          /\ pc' = "return"
     ELSE /\ stack' = [SubSeq(stack, 1, Len(stack) - 1)
                         EXCEPT ![Len(stack) - 1].phase = "tail"]
          /\ pc' = "walk"
  /\ UNCHANGED <<files, subdir_data, file_paths, printed, lcp, builder>>

\* The dict extract_document_data returns (metadata, which no step of the
\* traversal reads or writes, is left out).
DocData(file_path, ctx) ==
  [file_path |-> file_path,
   text |-> ctx.text_content,
   annotations |-> ctx.annotations]

\* extract_document_data returns and process_corpus appends the document.
Finish ==
  /\ pc = "return"
  /\ subdir_data' = Append(subdir_data, DocData(Head(files), context))
  /\ files' = Tail(files)
  /\ pc' = "idle"
  /\ UNCHANGED <<context, stack, file_paths, printed, lcp, builder>>

\* ET.parse raises inside extract_document_data: the except clause of
\* process_corpus prints the file path and the loop goes on.
ParseError ==
  /\ pc = "idle"
  /\ files # <<>>
  /\ Head(files) = Unparsable
  /\ printed' = Append(printed, Head(files))
  /\ files' = Tail(files)
  /\ UNCHANGED <<subdir_data, pc, context, stack, file_paths, lcp, builder>>

\* The except clause appending what the failed call had built so far.
RaiseKeepsPartial ==
  /\ pc = "walk"
  /\ stack # <<>>
  /\ Top.phase = "tail"
  /\ printed' = Append(printed, Head(files))
  /\ subdir_data' = Append(subdir_data, DocData(Head(files), context))
  /\ files' = Tail(files)
  /\ pc' = "idle"
  /\ stack' = <<>>
  /\ UNCHANGED <<context, file_paths, lcp, builder>>

\* An exception raised where the loop of the generic branch is about to add
\* a tail (MemoryError as the buffer grows): the calls unwind, the except
\* clause of process_corpus prints the file path and the loop goes on.
\* Nothing reads the context the failed call leaves behind.
Raise ==
  /\ pc = "walk"
  /\ stack # <<>>
  /\ Top.phase = "tail"
  /\ printed' = Append(printed, Head(files))
  /\ files' = Tail(files)
  /\ pc' = "idle"
  /\ stack' = <<>>
  /\ UNCHANGED <<subdir_data, context, file_paths, lcp, builder>>

\* ---------------------------------------------------------- convert_to_lcp

\* str.split and re.split for separators of one character: the pieces of s
\* between the characters of seps, empty pieces included.
RECURSIVE SplitAt(_, _)
SplitAt(s, seps) ==
  IF \A i \in 1..Len(s) : s[i] \notin seps
  THEN <<s>>
  ELSE LET i == CHOOSE k \in 1..Len(s) :
                  s[k] \in seps /\ \A j \in 1..(k - 1) : s[j] \notin seps
       IN  <<SubSeq(s, 1, i - 1)>> \o SplitAt(SubSeq(s, i + 1, Len(s)), seps)

AnnotationTypes ==
  {"placeName", "choice", "origDate", "persName", "substitution", "date"}

TokenDelimiters == {"'", ",", SP}

\* form_dict as the list of its keys: the id of a form is its index.
FormId(form_dict, token) ==
  IF \E i \in 1..Len(form_dict) : form_dict[i] = token
  THEN CHOOSE i \in 1..Len(form_dict) : form_dict[i] = token
  ELSE Len(form_dict) + 1

\* The loop over the tokens of one segment.
RECURSIVE TokenLoop(_, _, _)
TokenLoop(tokens, seg_id, st) ==
  IF tokens = <<>> THEN st
  ELSE LET token == Head(tokens)
           form_id == FormId(st.form_dict, token)
           next == [st EXCEPT
                      !.form_dict = IF form_id > Len(@) THEN Append(@, token)
                                    ELSE @,
                      !.tok_rows = Append(@,
                         [token_id |-> st.token_id,
                          form_id |-> form_id,
                          char_range |-> <<st.char_offset,
                                           st.char_offset + Len(token)>>,
                          seg_id |-> seg_id]),
                      !.char_offset = @ + Len(token) + 1,
                      !.token_id = @ + 1]
       IN  TokenLoop(Tail(tokens), seg_id, next)

\* The loop over the segments of one document.  The uuid of a segment is
\* stood for by the number of the segment row.
RECURSIVE SegmentLoop(_, _)
SegmentLoop(segments, st) ==
  IF segments = <<>> THEN st
  ELSE LET segment == Strip(Head(segments)) IN
       IF segment = <<>>
       THEN SegmentLoop(Tail(segments), st)
       ELSE LET seg_id == Len(st.seg_rows) + 1
                seg_start == st.char_offset
                tokens == SelectSeq(SplitAt(segment, TokenDelimiters),
                                    LAMBDA t : t # <<>>)
                after == TokenLoop(tokens, seg_id, st)
                seg_end == after.char_offset - 1
            IN  SegmentLoop(Tail(segments),
                  [after EXCEPT
                     !.seg_rows = Append(@, [seg_id |-> seg_id,
                                             char_range |-> <<seg_start, seg_end>>]),
                     !.char_offset = @ + 1])

\* The counters convert_to_lcp starts from; no row is written yet.
NoLcp ==
  [doc |-> 0, ann |-> 0, text |-> <<>>, doc_start |-> 1,
   char_offset |-> 1, token_id |-> 1, document_id |-> 1,
   form_dict |-> <<>>,
   annotation_counters |-> [t \in AnnotationTypes |-> 1],
   tok_rows |-> <<>>, seg_rows |-> <<>>, ann_rows |-> <<>>, doc_rows |-> <<>>]

\* process_corpus has returned and convert_to_lcp takes the next document:
\* doc_start, text, and the loop over its segments and tokens.
LcpDocument ==
  /\ \/ pc = "idle" /\ files = <<>>
     \/ pc = "lcp_doc"
  /\ lcp.doc < Len(subdir_data)
  /\ LET doc_data == subdir_data[lcp.doc + 1]
         st == [lcp EXCEPT !.doc = @ + 1,
                           !.ann = 1,
                           !.doc_start = lcp.char_offset,
                           !.text = doc_data.text]
     IN  lcp' = SegmentLoop(SplitAt(doc_data.text, {NL}), st)
  /\ pc' = "lcp_ann"
  /\ UNCHANGED <<files, subdir_data, context, stack, file_paths, printed, builder>>

\* The comparison that decides whether an annotation is written: the slice
\* of text, or else the slice of text without its newlines.
check_cond(text, annotation) ==
  \/ Slice(text, annotation.start_offset, annotation.end_offset)
       = annotation.text
  \/ Slice(StripNewlines(text), annotation.start_offset,
           annotation.end_offset) = annotation.text

\* One pass of the loop over the annotations of the document.  The third
\* column of the row and the lookup tables it is taken from are left out.
LcpAnnotation ==
  /\ pc = "lcp_ann"
  /\ lcp.ann <= Len(subdir_data[lcp.doc].annotations)
  /\ LET annotation == subdir_data[lcp.doc].annotations[lcp.ann]
         ann_type == annotation.type
         next == [lcp EXCEPT !.ann = @ + 1]
     IN  lcp' =
           IF ann_type \notin AnnotationTypes \/ ~check_cond(lcp.text, annotation)
           THEN next
           ELSE [next EXCEPT
                   !.annotation_counters[ann_type] = @ + 1,
                   !.ann_rows = Append(@,
                      [type |-> ann_type,
                       ann_id |-> lcp.annotation_counters[ann_type],
                       char_range |-> <<annotation.start_offset,
                                        annotation.end_offset>>]),
                   !.text = IF ann_type \in {"placeName", "persName"}
                            THEN annotation.text ELSE @]
  /\ UNCHANGED <<files, subdir_data, pc, context, stack, file_paths, printed, builder>>

\* The loop over the annotations is done: the document row (its metadata
\* columns left out) and the document counter.
LcpDocumentRow ==
  /\ pc = "lcp_ann"
  /\ lcp.ann > Len(subdir_data[lcp.doc].annotations)
  /\ lcp' = [lcp EXCEPT
               !.doc_rows = Append(@,
                  [document_id |-> lcp.document_id,
                   char_range |-> <<lcp.doc_start, lcp.char_offset - 1>>]),
               !.document_id = @ + 1]
  /\ pc' = "lcp_doc"
  /\ UNCHANGED <<files, subdir_data, context, stack, file_paths, printed, builder>>

Next ==
  \/ StartDocument
  \/ ParseError
  \/ Raise
  \/ PageBreak
  \/ LineBreak
  \/ Choice
  \/ Note
  \/ Subst
  \/ EnterElement
  \/ AddTail
  \/ ExitElement
  \/ Finish
  \/ LcpDocument
  \/ LcpAnnotation
  \/ LcpDocumentRow

\* ------------------------------------------------------------ specification

\* process_corpus is handed one file.
Init ==
  /\ files \in {<<d>> : d \in Docs}
  /\ file_paths = files
  /\ printed = <<>>
  /\ lcp = NoLcp
  /\ builder = NoBuilder
  /\ subdir_data = <<>>
  /\ pc = "idle"
  /\ context = NoContext
  /\ stack = <<>>

Spec == Init /\ [][Next]_vars

\* process_corpus is handed up to MaxFiles files, any of them more than once.
InitCorpus ==
  /\ files \in SeqsUpTo(CorpusDocs, MaxFiles) \ {<<>>}
  /\ file_paths = files
  /\ printed = <<>>
  /\ lcp = NoLcp
  /\ builder = NoBuilder
  /\ subdir_data = <<>>
  /\ pc = "idle"
  /\ context = NoContext
  /\ stack = <<>>

SpecCorpus == InitCorpus /\ [][Next]_vars

\* ------------------------------------------------------------- properties

\* The annotation's stored text as a str (None, stored when a side is
\* missing, reads as the empty string).
TextOf(a) == IF a.text = NoneStr THEN <<>> ELSE a.text

IsPrefix(s, t) == Len(s) <= Len(t) /\ SubSeq(t, 1, Len(s)) = s

InRange(a, text) ==
  /\ 0 <= a.start_offset
  /\ a.start_offset <= a.end_offset
  /\ a.end_offset <= Len(text)

\* C1: in every document extract_document_data returns, every annotation
\* whose type is not "note" has 0 <= start_offset <= end_offset <= len(text).
C1_NonNoteOffsetsInRange ==
  \A i \in DOMAIN subdir_data :
    LET doc_data == subdir_data[i] IN
    \A k \in DOMAIN doc_data.annotations :
      doc_data.annotations[k].type # "note"
        => InRange(doc_data.annotations[k], doc_data.text)

\* A returned document with a choice, a substitution or a generic annotation
\* that spans text and ends where the text ends.
C1_Witness ==
  \E i \in DOMAIN subdir_data :
    LET doc_data == subdir_data[i] IN
    \E k \in DOMAIN doc_data.annotations :
      LET a == doc_data.annotations[k] IN
      /\ a.type # "note"
      /\ a.start_offset > 0
      /\ a.start_offset < a.end_offset
      /\ a.end_offset = Len(doc_data.text)

\* C2 as stated: every annotation of a returned document, Note annotations
\* included, has 0 <= start_offset <= end_offset <= len(text).
C2_AllOffsetsInRange ==
  \A i \in DOMAIN subdir_data :
    LET doc_data == subdir_data[i] IN
    \A k \in DOMAIN doc_data.annotations :
      InRange(doc_data.annotations[k], doc_data.text)

\* C2 as amended: every annotation, Note annotations included, has
\* 0 <= start_offset <= end_offset and start_offset <= len(text);
\* end_offset <= len(text) for every annotation that is not a Note, and a
\* Note's end_offset is its start_offset plus the length of its text.
C2_OffsetsNoteEndByLength ==
  \A i \in DOMAIN subdir_data :
    LET doc_data == subdir_data[i] IN
    \A k \in DOMAIN doc_data.annotations :
      LET a == doc_data.annotations[k] IN
      /\ 0 <= a.start_offset
      /\ a.start_offset <= a.end_offset
      /\ a.start_offset <= Len(doc_data.text)
      /\ a.type # "note" => a.end_offset <= Len(doc_data.text)
      /\ a.type = "note" => a.end_offset = a.start_offset + Len(a.text)

\* A returned document with a Note annotation that starts after the first
\* characters of the text and ends beyond the end of the text.
C2_Witness ==
  \E i \in DOMAIN subdir_data :
    LET doc_data == subdir_data[i] IN
    \E k \in DOMAIN doc_data.annotations :
      LET a == doc_data.annotations[k] IN
      /\ a.type = "note"
      /\ a.start_offset > Len(a.text)
      /\ a.end_offset > Len(doc_data.text)

\* C3: for every annotation of a returned document that is not a Note,
\* text[start_offset:end_offset] equals the stored text, or the two are equal
\* once the newline characters are removed from both.
C3_SliceLaw ==
  \A i \in DOMAIN subdir_data :
    LET doc_data == subdir_data[i] IN
    \A k \in DOMAIN doc_data.annotations :
      LET a == doc_data.annotations[k]
          slice == Slice(doc_data.text, a.start_offset, a.end_offset)
      IN  a.type # "note"
            => \/ slice = TextOf(a)
               \/ StripNewlines(slice) = StripNewlines(TextOf(a))

\* The number of newline characters of a str.
RECURSIVE Newlines(_)
Newlines(s) ==
  IF s = <<>> THEN 0
  ELSE (IF Head(s) = NL THEN 1 ELSE 0) + Newlines(Tail(s))

\* C4: the buffer never holds two adjacent whitespace characters unless the
\* second is a newline, and only the lb branch puts a newline into the buffer.
C4_WhitespaceLaw ==
  /\ [](\A i \in 1..(Len(context.text_content) - 1) :
          (IsSpace(context.text_content[i])
             /\ IsSpace(context.text_content[i + 1]))
            => context.text_content[i + 1] = NL)
  /\ [][Newlines(context'.text_content) > Newlines(context.text_content)
          => (AtChild /\ Child.tag = "lb")]_vars

\* The buffer holds a space followed by the newline of a line break, after a
\* note wrote its separating space and text was appended behind them.
C4_Witness ==
  /\ \E i \in 1..(Len(context.text_content) - 2) :
       /\ context.text_content[i] = SP
       /\ context.text_content[i + 1] = NL
       /\ ~IsSpace(context.text_content[i + 2])
  /\ \E k \in DOMAIN context.annotations :
       /\ context.annotations[k].type = "note"
       /\ context.annotations[k].start_offset > 0

\* C5: global_offset is the length of the buffer in every state, and no step
\* of a traversal lowers it or changes a character already in the buffer.
C5_PositionCountsBuffer ==
  /\ [](context.global_offset = Len(context.text_content))
  /\ [][pc # "idle"
          => /\ context'.global_offset >= context.global_offset
             /\ IsPrefix(context.text_content, context'.text_content)]_vars

\* A traversal under way that appended characters and suppressed a whitespace
\* character of its input.
C5_Witness ==
  /\ pc = "walk"
  /\ context.global_offset >= 3
  /\ \E f \in DOMAIN stack :
       /\ stack[f].element.text = <<SP, NL, "a">>
       /\ stack[f].start_offset > 0
       /\ context.text_content[stack[f].start_offset] = SP
       /\ context.text_content[stack[f].start_offset + 1] = "a"

\* C6: two documents extracted from the same tree in one run, whatever was
\* extracted before or between them, have the same text and the same
\* annotation list.
C6_SameTreeSameResult ==
  \A i, j \in DOMAIN subdir_data :
    subdir_data[i].file_path = subdir_data[j].file_path
      => /\ subdir_data[i].text = subdir_data[j].text
         /\ subdir_data[i].annotations = subdir_data[j].annotations

\* The same tree extracted first and third, another tree in between, each
\* with text and annotations.
C6_Witness ==
  /\ Len(subdir_data) = 3
  /\ subdir_data[1].file_path = subdir_data[3].file_path
  /\ subdir_data[1].file_path # subdir_data[2].file_path
  /\ \A i \in 1..3 : /\ subdir_data[i].text # <<>>
                      /\ subdir_data[i].annotations # <<>>

\* C7: every Page record lies within the buffer, the records are in
\* non-decreasing offset order, and a <pb> with a page number appends one
\* record whose offset is the position the step found and left.
C7_PageOffsets ==
  /\ [](\A k \in DOMAIN context.pages :
          /\ 0 <= context.pages[k].offset
          /\ context.pages[k].offset <= Len(context.text_content)
          /\ k > 1 => context.pages[k - 1].offset <= context.pages[k].offset)
  /\ [][(AtChild /\ Child.tag = "pb" /\ Get(Child.attrib, "n") # "")
          => /\ context'.global_offset = context.global_offset
             /\ context'.pages =
                  Append(context.pages,
                         [page_num |-> Get(Child.attrib, "n"),
                          offset |-> context.global_offset])]_vars

\* A finished traversal with two Page records at different positions, the
\* second at the end of the text.
C7_Witness ==
  /\ pc = "return"
  /\ Len(context.pages) = 2
  /\ 0 < context.pages[1].offset
  /\ context.pages[1].offset < context.pages[2].offset
  /\ context.pages[2].offset = Len(context.text_content)

\* C8: the document extract_document_data returns holds the Page records of
\* its traversal, in order.
C8_ResultHasPages ==
  (pc = "idle" /\ subdir_data # <<>>)
    => LET doc_data == subdir_data[Len(subdir_data)] IN
       /\ "pages" \in DOMAIN doc_data
       /\ doc_data.pages = context.pages

\* The first child of element with the tag, as <<child>>, or <<>>.
DirectChild(element, tag) ==
  LET at == {i \in DOMAIN element.children : element.children[i].tag = tag}
  IN  IF at = {} THEN <<>>
      ELSE <<element.children[CHOOSE i \in at : \A j \in at : i <= j]>>

LastAnnotation(ctx) == ctx.annotations[Len(ctx.annotations)]

\* C9: a choice step appends the annotation's text and nothing else, and
\* records one choice annotation from the position at entry to the position
\* at exit whose text is one side and whose alternative_text is the other, so
\* that the slice of the buffer at its offsets is its text.
C9_ChoiceSliceIsText ==
  [][(AtChild /\ Child.tag = "choice")
      => LET a == LastAnnotation(context')
             sides == {TextOrNone(DirectChild(Child, "abbr")),
                       TextOrNone(DirectChild(Child, "expan"))}
         IN  /\ Len(context'.annotations) = Len(context.annotations) + 1
             /\ a.type = "choice"
             /\ sides = {a.text, a.alternative_text}
             /\ a.start_offset = context.global_offset
             /\ a.end_offset = context'.global_offset
             /\ context'.text_content = context.text_content \o TextOf(a)
             /\ Slice(context'.text_content, a.start_offset, a.end_offset)
                  = TextOf(a)]_vars

\* C10: a subst step appends the canonical text of the insertion and nothing
\* else, no character of a deletion among it, and records one substitution
\* annotation with text = insertion text, alternative_text = deletion text
\* and details = {deleted, added}.
C10_SubstAppendsInsertion ==
  [][(AtChild /\ Child.tag = "subst")
      => LET a == LastAnnotation(context')
             add_text == TextOrNone(DirectChild(Child, "add"))
             del_text == TextOrNone(DirectChild(Child, "del"))
             appended == SubSeq(context'.text_content,
                                Len(context.text_content) + 1,
                                Len(context'.text_content))
         IN  /\ Len(context'.annotations) = Len(context.annotations) + 1
             /\ a.type = "substitution"
             /\ a.text = add_text
             /\ a.alternative_text = del_text
             /\ a.details = [deleted |-> del_text, added |-> add_text]
             /\ IsPrefix(context.text_content, context'.text_content)
             /\ appended = TextOf(a)
             /\ \A i \in DOMAIN appended : appended[i] # "d"]_vars

\* The file whose <body> holds the text x and the children kids.
DocOf(x, kids) ==
  Root(<<Elem("text", NoAttrib, <<>>,
              <<Elem("body", NoAttrib, x, kids, <<>>)>>, <<>>)>>)

\* C11: a line break appends exactly one newline whatever the whitespace flag
\* is, moves the position on by one, sets the flag, changes nothing else of
\* the context and records no annotation; a text, a line break and a text
\* give the two texts joined by one newline.
C11_LineBreakAppendsNewline ==
  /\ [][(AtChild /\ Child.tag = "lb") =>
          context' = [context EXCEPT !.text_content = Append(@, NL),
                                     !.global_offset = @ + 1,
                                     !.last_char_is_whitespace = TRUE]]_vars
  /\ [](\A i \in 1..Len(subdir_data) :
          subdir_data[i].file_path = DocOf(<<"a">>, <<Lb(<<"a">>)>>)
            => subdir_data[i].text = <<"a", NL, "a">>)

\* The file "a ", <lb break="no"/>, "a" was returned: the line break was
\* processed while the flag was set, and carries an attribute.
C11_Witness ==
  /\ subdir_data # <<>>
  /\ subdir_data[1].file_path = DocOf(<<"a", SP>>, <<LbBreak(<<"a">>)>>)
  /\ subdir_data[1].text = <<"a", SP, NL, "a">>
  /\ subdir_data[1].annotations = <<>>

Contains(s, c) == \E i \in 1..Len(s) : s[i] = c

\* C12: a note appends no character of its text to the buffer: exactly one
\* space when the whitespace flag is false and nothing when it is true; it
\* records exactly one Note annotation, whose text is the note's canonical
\* text; "a", a note "c" and the tail "a" give the buffer "a a".
C12_NoteOnlySeparates ==
  /\ [][(AtChild /\ Child.tag = "note") =>
          /\ context'.text_content =
               IF context.last_char_is_whitespace
               THEN context.text_content
               ELSE Append(context.text_content, SP)
          /\ context'.annotations =
               Append(context.annotations, LastAnnotation(context'))
          /\ LastAnnotation(context').type = "note"
          /\ LastAnnotation(context').text = get_element_text(Child)]_vars
  /\ [](\A i \in 1..Len(subdir_data) :
          /\ ~Contains(subdir_data[i].text, "c")
          /\ subdir_data[i].file_path =
                DocOf(<<"a">>, <<NoteEl(<<"c">>, <<"a">>)>>)
               => subdir_data[i].text = <<"a", SP, "a">>)

\* The file "a", <note>c</note>, "a" was returned with one Note annotation.
C12_Witness ==
  /\ subdir_data # <<>>
  /\ subdir_data[1].file_path = DocOf(<<"a">>, <<NoteEl(<<"c">>, <<"a">>)>>)
  /\ Len(subdir_data[1].annotations) = 1
  /\ subdir_data[1].annotations[1].text = <<"c">>

\* all is made of the elements of ok and of failed, each in its order.
RECURSIVE IsInterleaving(_, _, _)
IsInterleaving(all, ok, failed) ==
  IF all = <<>>
  THEN ok = <<>> /\ failed = <<>>
  ELSE \/ /\ ok # <<>>
          /\ Head(ok) = Head(all)
          /\ IsInterleaving(Tail(all), Tail(ok), failed)
       \/ /\ failed # <<>>
          /\ Head(failed) = Head(all)
          /\ IsInterleaving(Tail(all), ok, Tail(failed))

\* The files the loop of process_corpus is done with.
Attempted == SubSeq(file_paths, 1, Len(file_paths) - Len(files))

PathsOf(docs) == [i \in 1..Len(docs) |-> docs[i].file_path]

\* C13: an exception raised while one document is extracted never stops the
\* batch: every later document is still attempted, the failed document
\* contributes no record, and the extracted documents appear in the result in
\* input order.
C13_FailureSkipsOneDocument ==
  /\ [](IsInterleaving(Attempted, PathsOf(subdir_data), printed))
  /\ [](files = SubSeq(file_paths, Len(file_paths) - Len(files) + 1,
                        Len(file_paths)))
  /\ [][printed' # printed
          => /\ subdir_data' = subdir_data
             /\ files' = Tail(files)
             /\ pc' = "idle"]_vars

\* Three different files were attempted; the second, a well-formed one,
\* failed in the middle of its traversal, the first and the third are the
\* result.
C13_Witness ==
  /\ files = <<>>
  /\ Len(file_paths) = 3
  /\ file_paths[1] # file_paths[3]
  /\ file_paths[2] \notin {Unparsable, file_paths[1], file_paths[3]}
  /\ printed = <<file_paths[2]>>
  /\ PathsOf(subdir_data) = <<file_paths[1], file_paths[3]>>

\* The annotation the loop of convert_to_lcp is at, and the slice its offsets
\* cut out of the text of its document.
LcpAtAnnotation ==
  /\ pc = "lcp_ann"
  /\ lcp.ann <= Len(subdir_data[lcp.doc].annotations)

LcpCurrent == subdir_data[lcp.doc].annotations[lcp.ann]

LcpSlice ==
  Slice(subdir_data[lcp.doc].text, LcpCurrent.start_offset,
        LcpCurrent.end_offset)

LcpWritten == Len(lcp'.ann_rows) = Len(lcp.ann_rows) + 1

\* C14: an annotation of a written type whose stored text differs from the
\* slice of the document text at its offsets is written exactly when the
\* slice and the stored text are equal once the newlines are taken out of
\* both; otherwise it alone is dropped: annotations whose text is the slice
\* are written, and every document gets its row.
C14_FallbackStripsBothSides ==
  /\ [][(LcpAtAnnotation /\ LcpCurrent.type \in AnnotationTypes)
          => IF LcpSlice = LcpCurrent.text
             THEN LcpWritten
             ELSE LcpWritten
                    <=> StripNewlines(LcpSlice) = StripNewlines(LcpCurrent.text)]_vars
  /\ [](pc = "lcp_doc" => Len(lcp.doc_rows) = lcp.doc)

\* The canonical text of a sub-node, the empty string when it is missing.
TextOrEmpty(found) == IF found = <<>> THEN <<>> ELSE get_element_text(found[1])

\* C15: a choice or subst that lacks one of its sub-nodes does not abort the
\* traversal, and the value of the missing side in the annotation (text,
\* alternative_text, details) is the empty string.
C15_MissingSideIsEmpty ==
  /\ [][(/\ AtChild
         /\ Child.tag = "choice"
         /\ <<>> \in {DirectChild(Child, "abbr"), DirectChild(Child, "expan")})
          => LET a == LastAnnotation(context')
                 abbr_text == TextOrEmpty(DirectChild(Child, "abbr"))
                 expan_text == TextOrEmpty(DirectChild(Child, "expan"))
             IN  /\ pc' = "walk"
                 /\ stack' = ChildDone
                 /\ a.text = IF expan_text # <<>> THEN expan_text ELSE abbr_text
                 /\ a.alternative_text =
                      IF expan_text # <<>> THEN abbr_text ELSE expan_text]_vars
  /\ [][(/\ AtChild
         /\ Child.tag = "subst"
         /\ <<>> \in {DirectChild(Child, "del"), DirectChild(Child, "add")})
          => LET a == LastAnnotation(context')
                 del_text == TextOrEmpty(DirectChild(Child, "del"))
                 add_text == TextOrEmpty(DirectChild(Child, "add"))
             IN  /\ pc' = "walk"
                 /\ stack' = ChildDone
                 /\ a.text = add_text
                 /\ a.alternative_text = del_text
                 /\ a.details = [deleted |-> del_text, added |-> add_text]]_vars

\* The generic-container path is about to end for the innermost element.
AtExit ==
  /\ pc = "walk"
  /\ stack # <<>>
  /\ Top.phase = "child"
  /\ Top.idx > Len(Top.element.children)

\* C16: a node on the generic-container path yields exactly one Generic
\* annotation, recorded after all its children and their tails, with the
\* offsets [position at entry, position at exit), exactly when its tag is
\* outside {text, body, p, div, group, lb, pb, choice, subst, del, add, abbr,
\* expan} and it carries at least one attribute; otherwise none.
C16_GenericAnnotation ==
  /\ [][(AtChild /\ Child.tag \notin {"pb", "lb", "choice", "note", "subst"})
          => /\ context'.annotations = context.annotations
             /\ Len(stack') = Len(stack) + 1
             /\ stack'[Len(stack')].element = Child
             /\ stack'[Len(stack')].start_offset = context.global_offset]_vars
  /\ [][AtExit
          => context'.annotations =
               IF /\ Top.element.tag \notin
                       {"text", "body", "p", "div", "group", "lb", "pb", "choice",
                        "subst", "del", "add", "abbr", "expan"}
                  /\ Top.element.attrib # {}
               THEN Append(context.annotations,
                           [LastAnnotation(context') EXCEPT
                              !.type = Top.element.tag,
                              !.start_offset = Top.start_offset,
                              !.end_offset = context.global_offset])
               ELSE context.annotations]_vars
  /\ [][(/\ pc = "walk"
         /\ Len(context'.annotations) > Len(context.annotations)
         /\ LastAnnotation(context').type \notin {"choice", "note", "substitution"})
          => AtExit]_vars

\* The file <hi>a</hi>" "<persName ref="r">a<lb/>b</persName>a was returned:
\* the one annotation is the name's, from its entry to its exit.
C16_Witness ==
  /\ subdir_data # <<>>
  /\ subdir_data[1].file_path =
       DocOf(<<>>, <<Hi(<<"a">>, <<SP>>),
                     PersName(<<"a">>, <<Lb(<<"b">>)>>, <<"a">>)>>)
  /\ Len(subdir_data[1].annotations) = 1
  /\ subdir_data[1].annotations[1].type = "persName"
  /\ subdir_data[1].annotations[1].start_offset = 2
  /\ subdir_data[1].annotations[1].end_offset = 5

\* s has no whitespace at either end, and every whitespace character in it
\* is a space that no whitespace follows.
IsCanonical(s) ==
  /\ s # <<>> => ~IsSpace(s[1]) /\ ~IsSpace(s[Len(s)])
  /\ \A i \in 1..Len(s) :
       IsSpace(s[i]) => /\ s[i] = SP
                        /\ i < Len(s) => ~IsSpace(s[i + 1])

\* The raw text of a subtree in document order, <del> children skipped.
RECURSIVE RawText(_)
RECURSIVE RawKids(_)
RawKids(kids) ==
  IF kids = <<>> THEN <<>>
  ELSE (IF Head(kids).tag # "del" THEN RawText(Head(kids)) ELSE <<>>)
       \o Head(kids).tail \o RawKids(Tail(kids))

RawText(element) == element.text \o RawKids(element.children)

\* C17: the canonical text of a node has no whitespace at its ends and every
\* maximal whitespace run inside it is exactly one space, no tab or newline
\* surviving: it is the raw text of the subtree, deletions skipped, with the
\* whitespace runs collapsed and the ends trimmed.
C17_CanonicalIsSingleSpaced ==
  /\ [](\A i \in 1..Len(context.annotations) :
          context.annotations[i].text # NoneStr
            => IsCanonical(context.annotations[i].text))
  /\ [][(AtChild /\ Child.tag = "note")
          => LastAnnotation(context').text
               = Strip(CollapseAll(RawText(Child)))]_vars

\* A stored side read as a string: None, the value of a missing side, reads
\* as the empty string.
AsText(v) == IF v = NoneStr THEN <<>> ELSE v

\* C18: the preferred text of a choice is the expansion's canonical text when
\* that is non-empty and the abbreviation's otherwise, and the alternative is
\* the side not chosen, whichever sides are present, empty or missing; with
\* identical sides the alternative equals the main text.
C18_ChoicePrefersExpansion ==
  [][(AtChild /\ Child.tag = "choice")
      => LET a == LastAnnotation(context')
             abbr_text == TextOrEmpty(DirectChild(Child, "abbr"))
             expan_text == TextOrEmpty(DirectChild(Child, "expan"))
         IN  /\ AsText(a.text) =
                  IF expan_text # <<>> THEN expan_text ELSE abbr_text
             /\ AsText(a.alternative_text) =
                  IF expan_text # <<>> THEN abbr_text ELSE expan_text
             /\ abbr_text = expan_text
                  => AsText(a.alternative_text) = AsText(a.text)]_vars

\* A choice with the abbreviation "b" and an empty expansion was processed:
\* the abbreviation is the text, the empty expansion the alternative.
C18_Witness ==
  /\ pc = "walk"
  /\ stack # <<>>
  /\ Top.phase = "tail"
  /\ Child.tag = "choice"
  /\ Child.children = <<Abbr(<<"b">>), Expan(<<>>)>>
  /\ LastAnnotation(context).text = <<"b">>
  /\ LastAnnotation(context).alternative_text = <<>>

NonSpace(s) == SelectSeq(s, LAMBDA c : ~IsSpace(c))

\* What a step appended to the buffer.
Appended ==
  SubSeq(context'.text_content, Len(context.text_content) + 1,
         Len(context'.text_content))

\* C19: a choice, a subst and a note pre-empt the traversal of their subtree:
\* the step records exactly one annotation, of that type; no annotation, no
\* Page record and no change of the current page comes from a descendant;
\* and no descendant text is emitted twice: what is appended is the
\* annotation's text once for a choice or subst, and no text for a note.
C19_SpecialFormsPreempt ==
  [][(AtChild /\ Child.tag \in {"choice", "subst", "note"})
      => LET a == LastAnnotation(context') IN
         /\ Len(context'.annotations) = Len(context.annotations) + 1
         /\ context'.annotations = Append(context.annotations, a)
         /\ a.type = (IF Child.tag = "subst" THEN "substitution" ELSE Child.tag)
         /\ context'.pages = context.pages
         /\ context'.current_page = context.current_page
         /\ stack' = ChildDone
         /\ IsPrefix(context.text_content, context'.text_content)
         /\ NonSpace(Appended) =
              IF Child.tag = "note" THEN <<>> ELSE NonSpace(TextOf(a))]_vars

\* The file <choice><abbr>b</abbr><expan><persName ref="r">a<pb n="3"/>
\* </persName></expan></choice> was returned: the text is "a", the one
\* annotation is the choice.
C19_Witness ==
  /\ subdir_data # <<>>
  /\ subdir_data[1].file_path =
       DocOf(<<>>, <<Elem("choice", NoAttrib, <<>>,
                          <<Abbr(<<"b">>),
                            Elem("expan", NoAttrib, <<>>, <<NamedPage>>, <<>>)>>,
                          <<>>)>>)
  /\ subdir_data[1].text = <<"a">>
  /\ Len(subdir_data[1].annotations) = 1
  /\ subdir_data[1].annotations[1].type = "choice"

\* C20 as claimed: in no returned document does the slice of the text at the
\* offsets of a Note annotation equal the annotation's text, notes with empty
\* text and notes followed by their own text included.
C20_NoNoteSatisfiesSliceLaw ==
  \A i \in 1..Len(subdir_data) :
    \A k \in 1..Len(subdir_data[i].annotations) :
      LET a == subdir_data[i].annotations[k] IN
      a.type = "note"
        => Slice(subdir_data[i].text, a.start_offset, a.end_offset) # a.text

\* C20, amended: the range of a Note annotation starts at the end of the
\* buffer at the time it is recorded and is as long as the note's text, so
\* it covers only what is appended after the note; for a note that ends the
\* body, the slice equals the note's text exactly when that text is empty or
\* the tail after the note begins with it.
C20_NoteRangeCoversFollowingText ==
  /\ [][(AtChild /\ Child.tag = "note")
          => LET a == LastAnnotation(context') IN
             /\ a.start_offset = Len(context'.text_content)
             /\ a.end_offset = a.start_offset + Len(a.text)]_vars
  /\ [](\A i \in 1..Len(subdir_data) :
          LET d == subdir_data[i]
              body == Find(d.file_path, "body")
              last == body[1].children[Len(body[1].children)]
              a == d.annotations[Len(d.annotations)]
          IN  (/\ body # <<>>
               /\ body[1].children # <<>>
               /\ last.tag = "note")
                => ((Slice(d.text, a.start_offset, a.end_offset) = a.text)
                      <=> \/ a.text = <<>>
                          \/ IsPrefix(a.text, LStrip(CollapseAll(last.tail)))))

\* The file <note>a</note>a was returned: the note's range [0,1) holds the
\* "a" of the tail, which is the note's text.
C20_Witness ==
  /\ subdir_data # <<>>
  /\ subdir_data[1].file_path = DocOf(<<>>, <<NoteEl(<<"a">>, <<"a">>)>>)
  /\ subdir_data[1].text = <<"a">>
  /\ subdir_data[1].annotations[1].text = <<"a">>
  /\ subdir_data[1].annotations[1].start_offset = 0
  /\ subdir_data[1].annotations[1].end_offset = 1

\* C21: the page of every annotation is the label of the most recent page
\* break with a page number processed before the annotation was recorded,
\* None when there was none yet; a page break without the attribute changes
\* neither the current page nor the page list.
C21_PageIsLatestLabel ==
  /\ [](context.current_page =
          IF context.pages = <<>> THEN None
          ELSE context.pages[Len(context.pages)].page_num)
  /\ [][(pc = "walk" /\ Len(context'.annotations) > Len(context.annotations))
          => /\ LastAnnotation(context').page = context.current_page
             /\ SubSeq(context'.annotations, 1, Len(context.annotations))
                  = context.annotations]_vars
  /\ [][(AtChild /\ Child.tag = "pb")
          => IF (\E v \in {"1", "2", "3"} : <<"n", v>> \in Child.attrib)
             THEN context'.current_page = Get(Child.attrib, "n")
             ELSE context' = context]_vars

\* The file <note>c</note><pb n="1"/><persName ref="r">a<pb n="1"/>b
\* </persName> was returned: the note has no page, the name the page "1".
C21_Witness ==
  /\ subdir_data # <<>>
  /\ subdir_data[1].file_path =
       DocOf(<<>>, <<NoteEl(<<"c">>, <<>>), Pb("1", <<>>),
                     PersName(<<"a">>, <<Pb("1", <<"b">>)>>, <<>>)>>)
  /\ Len(subdir_data[1].annotations) = 2
  /\ subdir_data[1].annotations[1].page = None
  /\ subdir_data[1].annotations[2].page = "1"

\* C24: in convert_to_lcp every annotation of a document is checked against
\* the full text of that document: handling an annotation, a placeName or
\* persName included, leaves the text the following ones are checked against
\* unchanged.
C24_CheckUsesDocumentText ==
  /\ [](pc = "lcp_ann" => lcp.text = subdir_data[lcp.doc].text)
  /\ [][(LcpAtAnnotation /\ LcpCurrent.type \in AnnotationTypes)
          => (LcpWritten
                <=> check_cond(subdir_data[lcp.doc].text, LcpCurrent))]_vars

\* C25: every character range [a,b) convert_to_lcp writes for a token, a
\* segment or a document has a <= b; the token ranges are disjoint and
\* strictly increasing; the range of a segment contains the ranges of its
\* tokens; also for documents with empty text.
C25_RangesWellFormed ==
  /\ \A rows \in {lcp.tok_rows, lcp.seg_rows, lcp.doc_rows} :
       \A i \in 1..Len(rows) : rows[i].char_range[1] <= rows[i].char_range[2]
  /\ \A i \in 1..Len(lcp.tok_rows) :
       LET t == lcp.tok_rows[i].char_range IN
       /\ t[1] < t[2]
       /\ i > 1 => lcp.tok_rows[i - 1].char_range[2] <= t[1]
       /\ lcp.seg_rows[lcp.tok_rows[i].seg_id].char_range[1] <= t[1]
       /\ t[2] <= lcp.seg_rows[lcp.tok_rows[i].seg_id].char_range[2]

\* ------------------------------------------------------- convert_builder.py

\* The least number of characters a body must hold to be extracted.
MinChars == 150

\* get_element_text of convert_builder.py: every text and tail of the
\* subtree, nothing skipped, nothing normalised.
RECURSIVE builder_get_element_text(_)
RECURSIVE BuilderKidsText(_)
BuilderKidsText(kids) ==
  IF kids = <<>> THEN <<>>
  ELSE builder_get_element_text(Head(kids)) \o Head(kids).tail
       \o BuilderKidsText(Tail(kids))

builder_get_element_text(elem) == elem.text \o BuilderKidsText(elem.children)

\* str.strip(), computed on the positions of the characters that are not
\* whitespace.
StripEnds(s) ==
  LET inked == {i \in 1..Len(s) : ~IsSpace(s[i])} IN
  IF inked = {} THEN <<>>
  ELSE SubSeq(s, CHOOSE i \in inked : \A j \in inked : i <= j,
                 CHOOSE i \in inked : \A j \in inked : j <= i)

\* The whitespace character that continues a run of whitespace.
InRun(p) == IsSpace(p.char) /\ p.after_space

\* re.sub(r"\s+", " ", text): every run of whitespace becomes one space.
SubRuns(text) ==
  LET marked == [i \in 1..Len(text) |->
                   [char |-> text[i],
                    after_space |-> i > 1 /\ IsSpace(text[i - 1])]]
      kept == SelectSeq(marked, LAMBDA p : ~InRun(p))
  IN  [i \in 1..Len(kept) |-> IF IsSpace(kept[i].char) THEN SP ELSE kept[i].char]

\* remove_extra_spaces of convert_builder.py: re.sub(r"\s+", " ", text).strip()
builder_remove_extra_spaces(text) == StripEnds(SubRuns(text))

\* text.append(piece); position += len(piece) + 1
AppendPiece(st, piece) ==
  [st EXCEPT !.text = Append(@, piece), !.position = @ + Len(piece) + 1]

\* text[-1] if text[-1:] else ""
LastPiece(st) == IF st.text # <<>> THEN st.text[Len(st.text)] ELSE <<>>

\* The loop of the choice branch over the tails of the children.
RECURSIVE ChoiceTails(_, _)
ChoiceTails(kids, st) ==
  IF kids = <<>> THEN st
  ELSE LET child_tail == builder_remove_extra_spaces(Head(kids).tail)
       IN  ChoiceTails(Tail(kids),
                       IF child_tail # <<>> THEN AppendPiece(st, child_tail)
                       ELSE st)

\* process_element of convert_builder.py: st holds the text list, the
\* annotation list and the position.
RECURSIVE builder_process_element(_, _)
RECURSIVE BuilderChildren(_, _)
BuilderChildren(kids, st) ==
  IF kids = <<>> THEN st
  ELSE LET after == builder_process_element(Head(kids), st)
           child_tail == builder_remove_extra_spaces(Head(kids).tail)
       IN  BuilderChildren(Tail(kids),
                           IF child_tail # <<>>
                           THEN AppendPiece(after, child_tail) ELSE after)

builder_process_element(elem, st) ==
  LET start_pos == st.position
      elem_text == builder_remove_extra_spaces(elem.text)
      s1 == IF elem_text # <<>> THEN AppendPiece(st, elem_text) ELSE st
  IN  IF elem.tag = "choice"
      THEN LET abbr == DirectChild(elem, "abbr")
               expan == DirectChild(elem, "expan")
               choice_start == s1.position
               abbr_text ==
                 IF abbr # <<>>
                 THEN builder_remove_extra_spaces(builder_get_element_text(abbr[1]))
                 ELSE <<>>
               s2 == IF expan # <<>>
                     THEN AppendPiece(s1,
                            builder_remove_extra_spaces(
                              builder_get_element_text(expan[1])))
                     ELSE s1
               s3 == [s2 EXCEPT !.annotations = Append(@,
                        [type |-> "choice",
                         start_offset |-> choice_start,
                         end_offset |-> s2.position,
                         text |-> LastPiece(s2),
                         alternative_text |-> abbr_text,
                         attributes |-> elem.attrib])]
           IN  ChoiceTails(elem.children, s3)
      ELSE LET s2 == BuilderChildren(elem.children, s1) IN
           IF elem.tag \in {"placeName", "persName", "orgName", "substitution"}
           THEN [s2 EXCEPT !.annotations = Append(@,
                   [type |-> elem.tag,
                    start_offset |-> start_pos,
                    end_offset |-> s2.position,
                    text |-> LastPiece(s2),
                    attributes |-> elem.attrib])]
           ELSE s2

\* " ".join(text)
RECURSIVE JoinPieces(_)
JoinPieces(pieces) ==
  IF pieces = <<>> THEN <<>>
  ELSE IF Len(pieces) = 1 THEN pieces[1]
       ELSE pieces[1] \o <<SP>> \o JoinPieces(Tail(pieces))

\* extract_text_and_annotations(root, namespaces, current_pos) for a root
\* that holds a <body>: text, annotations and position.
extract_text_and_annotations(root, current_pos) ==
  LET body == Find(root, "body")
      st == builder_process_element(body[1],
              [text |-> <<>>, annotations |-> <<>>, position |-> current_pos])
  IN  [text |-> JoinPieces(st.text),
       annotations |-> st.annotations,
       position |-> st.position]

\* The document process_xml_file returns for a file it skips or fails on.
EmptyDoc(file_path) ==
  [file_path |-> file_path, text |-> <<>>, annotations |-> <<>>]

\* process_xml_file skips the file: its body is missing or holds too little.
TooLittleText(file_path) ==
  LET body == Find(file_path, "body")
      text_element == IF body = <<>> THEN <<>>
                      ELSE StripEnds(builder_get_element_text(body[1]))
  IN  text_element = <<>> \/ Len(text_element) < MinChars

\* A body text of exactly MinChars characters.
Long == [i \in 1..MinChars |-> "a"]

\* The files handed to convert_builder.py: one that cannot be parsed, one
\* without <body>, bodies with too little text (one of them MinChars long
\* only with its leading space), and bodies that are extracted: plain text, a
\* name, a name after text and before a tail, a choice with both sides, and a
\* choice whose only text is its abbreviation.
BuilderDocs ==
  { Unparsable,
    Root(<<>>),
    DocOf(<<"a">>, <<PersName(<<"a">>, <<>>, <<>>)>>),
    DocOf(<<SP>> \o SubSeq(Long, 1, MinChars - 1), <<>>),
    DocOf(Long, <<>>),
    DocOf(<<>>, <<PersName(Long, <<>>, <<>>)>>),
    DocOf(Long, <<PersName(<<"a", SP, NL, "b">>, <<Lb(<<"b">>)>>, <<SP, "a">>)>>),
    DocOf(Long, <<Elem("choice", NoAttrib, <<>>,
                       <<Abbr(<<"b">>), Expan(<<"a">>)>>, <<"a">>)>>),
    DocOf(<<>>, <<Elem("choice", NoAttrib, <<>>, <<Abbr(Long)>>, <<>>)>>) }

\* What convert_builder.py does not touch.
ConvertVars ==
  <<files, subdir_data, pc, context, stack, file_paths, printed, lcp>>

\* process_xml_file extracts the file; process_corpus appends the document
\* and takes the position it returned.
BuilderExtract ==
  /\ builder.xml_files # <<>>
  /\ LET xml_file == Head(builder.xml_files)
         result == extract_text_and_annotations(xml_file, builder.current_pos)
     IN  /\ xml_file # Unparsable
         /\ ~TooLittleText(xml_file)
         /\ builder' = [xml_files |-> Tail(builder.xml_files),
                        corpus_data |-> Append(builder.corpus_data,
                           [file_path |-> xml_file,
                            text |-> result.text,
                            annotations |-> result.annotations]),
                        current_pos |-> result.position]
  /\ UNCHANGED ConvertVars

\* process_xml_file skips the file for too little text.
BuilderSkip ==
  /\ builder.xml_files # <<>>
  /\ Head(builder.xml_files) # Unparsable
  /\ TooLittleText(Head(builder.xml_files))
  /\ builder' = [builder EXCEPT
                   !.xml_files = Tail(@),
                   !.corpus_data = Append(@, EmptyDoc(Head(builder.xml_files)))]
  /\ UNCHANGED ConvertVars

\* The except clause returning the position the failed extraction would have
\* reached.
BuilderErrorAdvances ==
  /\ builder.xml_files # <<>>
  /\ LET xml_file == Head(builder.xml_files) IN
     /\ xml_file = Unparsable \/ ~TooLittleText(xml_file)
     /\ builder' = [xml_files |-> Tail(builder.xml_files),
                    corpus_data |-> Append(builder.corpus_data,
                                           EmptyDoc(xml_file)),
                    current_pos |->
                      IF xml_file = Unparsable THEN builder.current_pos
                      ELSE extract_text_and_annotations(
                             xml_file, builder.current_pos).position]
  /\ UNCHANGED ConvertVars

\* The except clause of process_xml_file: ET.parse raised, or an exception
\* was raised while the file was extracted.
BuilderError ==
  /\ builder.xml_files # <<>>
  /\ LET xml_file == Head(builder.xml_files) IN
     /\ xml_file = Unparsable \/ ~TooLittleText(xml_file)
     /\ builder' = [builder EXCEPT
                      !.xml_files = Tail(@),
                      !.corpus_data = Append(@, EmptyDoc(xml_file))]
  /\ UNCHANGED ConvertVars

NextBuilder ==
  \/ BuilderExtract
  \/ BuilderSkip
  \/ BuilderError

\* process_corpus of convert_builder.py is handed up to MaxFiles files.
InitBuilder ==
  /\ files = <<>>
  /\ subdir_data = <<>>
  /\ pc = "idle"
  /\ context = NoContext
  /\ stack = <<>>
  /\ file_paths = <<>>
  /\ printed = <<>>
  /\ lcp = NoLcp
  /\ builder \in [xml_files : SeqsUpTo(BuilderDocs, MaxFiles) \ {<<>>},
                   corpus_data : {<<>>},
                   current_pos : {0}]

SpecBuilder == InitBuilder /\ [][NextBuilder]_vars

\* The last document of corpus_data.
BuilderLast(b) == b.corpus_data[Len(b.corpus_data)]

BuilderStep == builder'.xml_files # builder.xml_files

\* C22: the running offset of process_corpus is advanced only by a document
\* whose extraction completed: a document that raises or is skipped leaves
\* it unchanged and contributes empty text and no annotations, and every
\* extraction starts at the offset the last extracted document returned.
C22_OffsetAdvancedByCompletedOnly ==
  [][BuilderStep
      => LET xml_file == Head(builder.xml_files)
             d == BuilderLast(builder')
             result == extract_text_and_annotations(xml_file, builder.current_pos)
         IN  /\ builder'.corpus_data = Append(builder.corpus_data, d)
             /\ d.file_path = xml_file
             /\ \/ /\ builder'.current_pos = builder.current_pos
                   /\ d.text = <<>>
                   /\ d.annotations = <<>>
                \/ /\ xml_file # Unparsable
                   /\ ~TooLittleText(xml_file)
                   /\ d.text = result.text
                   /\ d.annotations = result.annotations
                   /\ builder'.current_pos = result.position
                   /\ \A k \in 1..Len(d.annotations) :
                        d.annotations[k].start_offset >= builder.current_pos
             /\ (xml_file = Unparsable \/ TooLittleText(xml_file))
                  => builder'.current_pos = builder.current_pos]_vars

\* Three files were processed: a name was extracted, the second file failed
\* though it could be extracted, and the name of the third starts at the
\* position the first returned.
C22_Witness ==
  /\ builder.xml_files = <<>>
  /\ Len(builder.corpus_data) = 3
  /\ builder.corpus_data[1].annotations # <<>>
  /\ builder.corpus_data[2].file_path = DocOf(Long, <<>>)
  /\ builder.corpus_data[2].text = <<>>
  /\ builder.corpus_data[3].annotations # <<>>
  /\ builder.corpus_data[3].annotations[1].start_offset
       = builder.corpus_data[1].annotations[1].end_offset
  /\ builder.corpus_data[3].annotations[1].start_offset > 0

\* C23: the position counter of convert_builder.py counts the characters of
\* the produced text: a document started at p returns p + len(text), and
\* every annotation has p <= start_offset <= end_offset <= p + len(text).
C23_PositionCountsText ==
  [][(BuilderStep /\ builder'.current_pos # builder.current_pos)
      => LET d == BuilderLast(builder')
             p == builder.current_pos
         IN  /\ builder'.current_pos = p + Len(d.text)
             /\ \A k \in 1..Len(d.annotations) :
                  /\ p <= d.annotations[k].start_offset
                  /\ d.annotations[k].start_offset <= d.annotations[k].end_offset
                  /\ d.annotations[k].end_offset <= p + Len(d.text)]_vars

====
